---- MODULE Spec2Model ----
(***************************************************************************)
(* Connection manager of the Weishaupt heat pump integration:              *)
(* ModbusAPI.connect (modbusobject.py) with its in-flight guard, failure   *)
(* counter and exponential backoff, driven by its three callers: the       *)
(* coordinator setup (startup=True), the coordinator poll cycle            *)
(* (_ensure_connection) and the entity write path (set_translate_val).     *)
(*                                                                         *)
(* connect() runs on one asyncio event loop: the code between two awaits   *)
(* is atomic.  connect() has a single await (the transport's connect), so  *)
(* a call is modelled by one step from entry to that await (or to an early *)
(* return) and one step from the resumption of the await to the return,    *)
(* the finally clause included.                                            *)
(*                                                                         *)
(* The transport (pymodbus AsyncModbusTcpClient) is the environment: its   *)
(* connect() may leave the client connected or not connected, or raise a   *)
(* ModbusException, a network error or any other exception; its close()    *)
(* returns normally and leaves the client not connected.                   *)
(***************************************************************************)
EXTENDS Integers, FiniteSets, Sequences, TLC

\* ---------------------------------------------------------------- constants
BACKOFF_BASE_SECONDS == 300
BACKOFF_MAX_SECONDS == 3600
BACKOFF_THRESHOLD_FAILURES == 3

\* value of _last_connection_try before the first attempt
None == 0 - 1

\* ------------------------------------------------------------------- bounds
\* the transport is only allowed to fail while the counter is below this
MaxFailures == 8
\* the clock is observed one second before, at and one second after each
\* multiple k * BACKOFF_BASE_SECONDS, k in 0..MaxSlots
MaxSlots == 12

ClockOffsets == {0 - 1, 0, 1}

TimeGrid ==
    { t \in { k * BACKOFF_BASE_SECONDS + d :
                k \in 0..MaxSlots, d \in ClockOffsets } : t >= 0 }

\* ------------------------------------------------------------------ callers
Callers == {"setup", "poll", "write"}

\* the value each caller passes for the startup parameter
StartupOf(c) == c = "setup"

\* outcomes of the awaited transport connect
Outcomes == {"connected", "not_connected", "modbus_exc", "network_exc",
             "unexpected_exc"}

FailedOutcomes == Outcomes \ {"connected"}

VARIABLES
    connect_pending,          \* ModbusAPI._connect_pending
    failed_reconnect_counter, \* ModbusAPI._failed_reconnect_counter
    last_connection_try,      \* ModbusAPI._last_connection_try (None or time)
    connected,                \* AsyncModbusTcpClient.connected
    now,                      \* loop.time(), in seconds
    pc,                       \* per caller: "idle" or "awaiting" the transport
    last_call,                \* what the most recent connect call did
    episode_backoff           \* backoff computed by the latest non-startup
                              \* call since the last successful connect

VARIABLES
    item,                     \* the ModbusItem a ModbusObject is bound to
    no_connect_warn,          \* ModbusObject._no_connect_warn
    op,                       \* the ModbusObject call under way, if any
    request,                  \* the last request handed to the transport
    result                    \* what the last ModbusObject call gave back

VARIABLES
    registry,                 \* MyCoordinator._modbusitems, with item states
    enabled,                  \* the heating circuits enabled in the config entry
    cycle,                    \* position of the poll cycle under way
    results,                  \* the results dict fetch_data is filling
    setup,                    \* the run of MyCoordinator._async_setup
    looked,                   \* the last call of get_value_from_item
    notified,                 \* the entering-backoff notifications emitted
    write                     \* the entity write under way, if any

\* the state of the connection manager
connvars == <<connect_pending, failed_reconnect_counter, last_connection_try,
              connected, now, pc, last_call, episode_backoff>>

\* the state of the register object and of its item
objvars == <<item, no_connect_warn, op, request, result>>

\* the state of the coordinator and of its poll cycle
pollvars == <<registry, enabled, cycle, results, setup, looked, notified,
              write>>

vars == <<connect_pending, failed_reconnect_counter, last_connection_try,
          connected, now, pc, last_call, episode_backoff,
          item, no_connect_warn, op, request, result,
          registry, enabled, cycle, results, setup, looked, notified, write>>

\* ------------------------------------------------------------ pure helpers
RECURSIVE Pow2(_)
Pow2(n) == IF n <= 0 THEN 1 ELSE 2 * Pow2(n - 1)

Min(a, b) == IF a < b THEN a ELSE b

\* variant of Backoff: the exponent is the counter itself
Backoff_ExponentNotRebased(f, startup) ==
    IF f >= BACKOFF_THRESHOLD_FAILURES /\ ~startup
    THEN Min(BACKOFF_BASE_SECONDS * Pow2(f), BACKOFF_MAX_SECONDS)
    ELSE 0

\* variant of Backoff: the cap is not applied
Backoff_NoCap(f, startup) ==
    IF f >= BACKOFF_THRESHOLD_FAILURES /\ ~startup
    THEN BACKOFF_BASE_SECONDS * Pow2(f - BACKOFF_THRESHOLD_FAILURES)
    ELSE 0

\* modbusobject.py 69-80: the backoff computed by a call
Backoff(f, startup) ==
    IF f >= BACKOFF_THRESHOLD_FAILURES /\ ~startup
    THEN Min(BACKOFF_BASE_SECONDS * Pow2(f - BACKOFF_THRESHOLD_FAILURES),
             BACKOFF_MAX_SECONDS)
    ELSE 0

\* variant of InBackoffWindow: the window includes its end
InBackoffWindow_Inclusive(backoff, last, t, startup) ==
    /\ backoff > 0
    /\ last # None
    /\ ~startup
    /\ t - last <= backoff

\* modbusobject.py 82-93: the call is skipped, still inside the backoff window
InBackoffWindow(backoff, last, t, startup) ==
    /\ backoff > 0
    /\ last # None
    /\ ~startup
    /\ t - last < backoff

\* variant of SkipsAttempt: the startup parameter is not honoured
SkipsAttempt_IgnoresStartup(f, last, t, startup) ==
    InBackoffWindow(Backoff(f, FALSE), last, t, FALSE)

\* modbusobject.py 69-93: whether a call that passed the guard returns False
\* without reaching the transport
SkipsAttempt(f, last, t, startup) ==
    InBackoffWindow(Backoff(f, startup), last, t, startup)

\* variant of GuardBlocks: the guard is not consulted
GuardBlocks_Never(pending) == FALSE

\* modbusobject.py 58: the in-flight guard turns the call away
GuardBlocks(pending) == pending

\* variant of CounterAfter: a connect that returns without a connection is
\* not counted
CounterAfter_NotConnectedUncounted(o, f) ==
    IF o \in {"connected", "not_connected"}
    THEN (IF o = "connected" THEN 0 ELSE f)
    ELSE f + 1

\* modbusobject.py 117, 121, 136, 151, 169: the counter after a real attempt
CounterAfter(o, f) == IF o = "connected" THEN 0 ELSE f + 1

\* variant of LogsBackoffStart: the threshold is compared before the increment
LogsBackoffStart_BeforeIncrement(o, f, startup) ==
    /\ o # "connected"
    /\ f = BACKOFF_THRESHOLD_FAILURES
    /\ ~startup

\* variant of LogsBackoffStart: every failure from the threshold on logs
LogsBackoffStart_FromThresholdOn(o, f, startup) ==
    /\ o # "connected"
    /\ f + 1 >= BACKOFF_THRESHOLD_FAILURES
    /\ ~startup

\* modbusobject.py 122-126, 137-141, 152-156, 170-174: _log_backoff_start runs
LogsBackoffStart(o, f, startup) ==
    /\ o # "connected"
    /\ f + 1 = BACKOFF_THRESHOLD_FAILURES
    /\ ~startup

\* modbusobject.py 126-128, 142, 158, 176: _modbus_client.close() is reached
ClosesTransport(o, f, startup) ==
    CASE o = "connected" -> FALSE
      [] o = "not_connected" ->
            ~(f + 1 = BACKOFF_THRESHOLD_FAILURES /\ ~startup)
      [] OTHER -> TRUE

\* variant of PendingAfterExit: the guard is cleared before the returns of
\* the try body only, not in a finally clause
PendingAfterExit_NoFinally(path) ==
    path \in {"modbus_exc", "network_exc", "unexpected_exc", "cancelled"}

\* modbusobject.py 181-183: the guard when the call that set it has ended,
\* by a return, by a handled exception or by cancellation
PendingAfterExit(path) == FALSE

\* ------------------------------------------------------ register object
\* const.py FormatConstants
FORMATS == {"temperature", "percentage", "number", "status", "unknown"}

\* const.py TypeConstants
TYPES == {"Sensor", "Sensor_Calc", "Select", "Number", "Number_RO"}

\* a type string that is none of TypeConstants (the `case _` of get_value)
OtherType == "Other"

\* register addresses of the item descriptors that are tried
Addresses == {0, 1}

\* radius of the intervals of integers tried around each pivot value
CodecRadius == 3

\* the literals of check_temperature, check_percentage and
\* check_valid_response and the encodings of -999 and -246
Pivots == {0 - 32768, 0 - 999, 0, 32768, 64537, 65290, 65536}

\* the integers handed to the checks
IntSamples ==
    UNION { (p - CodecRadius)..(p + CodecRadius) : p \in Pivots }

\* what a 16-bit register can hold
RegisterValues == { v \in IntSamples : v >= 0 /\ v <= 65535 }

\* an int | None result
Absent == [some |-> FALSE, val |-> 0]

Some(v) == [some |-> TRUE, val |-> v]

\* variant of check_temperature: 65535 is subtracted
check_temperature_OffByOne(val) ==
    CASE val = 0 - 32768 -> [res |-> Absent, invalid |-> TRUE]
      [] val = 32768 -> [res |-> Absent, invalid |-> TRUE]
      [] val = 0 - 32767 -> [res |-> Some(0 - 999), invalid |-> FALSE]
      [] OTHER ->
            [res |-> Some(IF val > 32768 THEN val - 65535 ELSE val),
             invalid |-> FALSE]

\* variant of check_temperature: the broken-sensor value is looked for after
\* the decoding
check_temperature_BrokenAfterDecoding(val) ==
    CASE val = 0 - 32768 -> [res |-> Absent, invalid |-> TRUE]
      [] val = 32768 -> [res |-> Absent, invalid |-> TRUE]
      [] OTHER ->
            LET d == IF val > 32768 THEN val - 65536 ELSE val IN
            [res |-> Some(IF d = 0 - 32767 THEN 0 - 999 ELSE d),
             invalid |-> FALSE]

\* modbusobject.py 236-264: the value returned and the value given to
\* is_invalid
check_temperature(val) ==
    CASE val = 0 - 32768 -> [res |-> Absent, invalid |-> TRUE]
      [] val = 32768 -> [res |-> Absent, invalid |-> TRUE]
      [] val = 0 - 32767 -> [res |-> Some(0 - 999), invalid |-> FALSE]
      [] OTHER ->
            [res |-> Some(IF val > 32768 THEN val - 65536 ELSE val),
             invalid |-> FALSE]

\* variant of check_percentage: the sentinel is passed through
check_percentage_NoSentinel(val) == [res |-> Some(val), invalid |-> FALSE]

\* modbusobject.py 266-280
check_percentage(val) ==
    IF val = 65535
    THEN [res |-> Absent, invalid |-> TRUE]
    ELSE [res |-> Some(val), invalid |-> FALSE]

\* modbusobject.py 282-293
check_status(val) == [res |-> Some(val), invalid |-> FALSE]

\* modbusobject.py 223-234
check_valid_result(format, val) ==
    CASE format = "temperature" -> check_temperature(val)
      [] format = "percentage" -> check_percentage(val)
      [] format = "status" -> check_status(val)
      [] OTHER -> [res |-> Some(val), invalid |-> FALSE]

\* variant of check_valid_response: 65535 is added
check_valid_response_OffByOne(format, val) ==
    IF format = "temperature" /\ val < 0 THEN val + 65535 ELSE val

\* variant of check_valid_response: the format is not looked at
check_valid_response_AnyFormat(format, val) ==
    IF val < 0 THEN val + 65536 ELSE val

\* modbusobject.py 295-311
check_valid_response(format, val) ==
    IF format = "temperature" /\ val < 0 THEN val + 65536 ELSE val

\* exception codes of an exception response that are tried: 1..this
MaxExceptionCode == 4

\* the answers of the transport to a read: a response carrying at most one
\* register, or an exception response
Responses ==
    [kind : {"registers"}, code : {0},
     regs : {<<>>} \cup { <<v>> : v \in RegisterValues }]
    \cup
    [kind : {"exception"}, code : 1..MaxExceptionCode, regs : {<<>>}]

\* what the transport's read or write may raise instead of answering:
\* a ModbusException, or a network error (TimeoutError, OSError,
\* ConnectionError: the errors connect() expects of the transport)
Raises == {"ModbusException", "OSError", "TimeoutError"}

\* variant of GetValuePath: the connection is not looked at
GetValuePath_IgnoresConnection(conn, invalid, type) ==
    CASE invalid -> "invalid"
      [] type \in {"Sensor", "Sensor_Calc"} -> "input"
      [] type \in {"Select", "Number", "Number_RO"} -> "holding"
      [] OTHER -> "unknown_type"

\* variant of GetValuePath: a read-only number is read as an input register
GetValuePath_NumberRoAsInput(conn, invalid, type) ==
    CASE ~conn -> "not_connected"
      [] invalid -> "invalid"
      [] type \in {"Sensor", "Sensor_Calc", "Number_RO"} -> "input"
      [] type \in {"Select", "Number"} -> "holding"
      [] OTHER -> "unknown_type"

\* variant of GetValuePath: an item marked invalid is read all the same
GetValuePath_IgnoresInvalid(conn, invalid, type) ==
    CASE ~conn -> "not_connected"
      [] type \in {"Sensor", "Sensor_Calc"} -> "input"
      [] type \in {"Select", "Number", "Number_RO"} -> "holding"
      [] OTHER -> "unknown_type"

\* modbusobject.py 349-380: the branch get_value takes
GetValuePath(conn, invalid, type) ==
    CASE ~conn -> "not_connected"
      [] invalid -> "invalid"
      [] type \in {"Sensor", "Sensor_Calc"} -> "input"
      [] type \in {"Select", "Number", "Number_RO"} -> "holding"
      [] OTHER -> "unknown_type"

\* variant of validate_modbus_answer: every exception response marks the
\* item invalid
validate_modbus_answer_AnyCode(format, invalid, mbr) ==
    IF mbr.kind = "exception"
    THEN [res |-> Absent, invalid |-> TRUE]
    ELSE IF Len(mbr.regs) > 0
         THEN check_valid_result(format, mbr.regs[1])
         ELSE [res |-> Absent, invalid |-> invalid]

\* modbusobject.py 313-345: the value returned and the item's is_invalid
\* afterwards, for an answer mbr and the flag as it was
validate_modbus_answer(format, invalid, mbr) ==
    IF mbr.kind = "exception"
    THEN [res |-> Absent, invalid |-> (mbr.code = 2) \/ invalid]
    ELSE IF Len(mbr.regs) > 0
         THEN check_valid_result(format, mbr.regs[1])
         ELSE [res |-> Absent, invalid |-> invalid]

\* variant of Catches: get_value and set_value catch nothing
Catches_Nothing(e) == FALSE

\* modbusobject.py 381 and 411: the exceptions get_value and set_value catch
Catches(e) == e = "ModbusException"

\* variant of SetValuePath: the connection is not looked at
SetValuePath_IgnoresConnection(conn, type) ==
    IF type \in {"Sensor", "Number_RO", "Sensor_Calc"} THEN "read_only"
    ELSE "write"

\* modbusobject.py 396-405: the branch set_value takes
SetValuePath(conn, type) ==
    CASE ~conn -> "not_connected"
      [] type \in {"Sensor", "Number_RO", "Sensor_Calc"} -> "read_only"
      [] OTHER -> "write"

\* the item descriptors that are tried, as constructed (items.py 107-108:
\* state starts None, is_invalid starts False)
ItemDescriptors ==
    [format : FORMATS, type : TYPES \cup {OtherType}, address : Addresses,
     is_invalid : {FALSE}, state : {Absent}]

NoOp == [name |-> "none", arg |-> 0]

NoRequest == [kind |-> "none", address |-> 0, value |-> 0, count |-> 0]

NoResult == [fn |-> "none", arg |-> 0, res |-> Absent, raised |-> "none"]

\* the register object at rest, bound to a plain sensor item
ObjIdle ==
    /\ item = [format |-> "number", type |-> "Sensor", address |-> 0,
               is_invalid |-> FALSE, state |-> Absent]
    /\ no_connect_warn = FALSE
    /\ op = NoOp
    /\ request = NoRequest
    /\ result = NoResult

\* ModbusObject.__init__ with any of the item descriptors
ObjInit ==
    /\ item \in ItemDescriptors
    /\ no_connect_warn \in BOOLEAN
    /\ op = NoOp
    /\ request = NoRequest
    /\ result = NoResult

\* ------------------------------------------------------- the coordinator
\* coordinator.py 23-37: the sub-devices a configuration switch enables
ConfigDevices == {"HZ2", "HZ3", "HZ4", "HZ5"}

\* variant of check_configured: only the second heating circuit is switched
check_configured_OnlySecondCircuit(device, en) ==
    IF device = "HZ2" THEN device \in en ELSE TRUE

\* coordinator.py 23-37
check_configured(device, en) ==
    IF device \in ConfigDevices THEN device \in en ELSE TRUE

\* an item of the registry as the coordinator is given it
RegistryItem(key, device, type, format, address) ==
    [key |-> key, device |-> device, type |-> type, format |-> format,
     address |-> address, is_invalid |-> FALSE, state |-> Absent]

\* the registries polled: an item of the first heating circuit, an item of
\* a switchable heating circuit (a number of circuit 2, or an item of any
\* kind of circuit 5, which PollInit never enables) and an item of no
\* monitored kind
Registries ==
    { << RegistryItem("k1", "HZ", "Sensor", "temperature", 0),
         RegistryItem("k2", dt[1], dt[2], "number", 1),
         RegistryItem("k3", "WW", OtherType, "number", 0) >> :
        dt \in ({"HZ2"} \X {"Number"}) \cup ({"HZ5"} \X TYPES) }

\* the idx arguments fetch_data is given: the empty set stands for None as
\* well, which the code treats alike; index 3 is past the end of a registry
IdxArguments == {{}, {0, 1}, {1, 3}}

RECURSIVE Orders(_)
\* the orders in which iterating a set may yield its members
Orders(S) ==
    IF S = {} THEN {<<>>}
    ELSE UNION { { <<x>> \o q : q \in Orders(S \ {x}) } : x \in S }

RECURSIVE Ascending(_)
\* range(len(items)) as a tuple, over a set of indices
Ascending(S) ==
    IF S = {} THEN <<>>
    ELSE LET x == CHOOSE y \in S : \A z \in S : y <= z
         IN <<x>> \o Ascending(S \ {x})

\* coordinator.py 98-101: the tuples to_update may be for an idx argument
ToUpdate(idx, reg) ==
    IF idx = {} THEN {Ascending(0..(Len(reg) - 1))} ELSE Orders(idx)

\* variant of Put: an absent value is not stored
Put_SkipsAbsent(res, key, value) ==
    IF value = Absent THEN res
    ELSE {e \in res : e.key # key} \cup {[key |-> key, res |-> value]}

\* results[key] = value
Put(res, key, value) ==
    {e \in res : e.key # key} \cup {[key |-> key, res |-> value]}

\* the responses a polled register gives
PollResponses ==
    {r \in Responses :
        /\ r.kind = "registers" => (r.regs = <<>> \/ r.regs[1] = 0)
        /\ r.kind = "exception" => r.code \in {1, 2}}

\* the instants the poll cycles are observed at: the start, and the end of
\* the first backoff window
PollGrid == {0, BACKOFF_BASE_SECONDS}

RECURSIVE Advance(_, _, _, _, _)
\* coordinator.py 108-128: fetch_data runs on from the head of todo until a
\* register read suspends it (wait) or the tuple is used up.  An index past
\* the registry, an unconfigured item and an item of no monitored kind are
\* passed over; a monitored item whose get_value returns without a request
\* gets the state None and an entry None.
\* variant of StoreState: a read without a value keeps the value stored
\* by an earlier read
StoreState_KeepsStale(reg, n, value) ==
    IF value = Absent THEN reg ELSE [reg EXCEPT ![n].state = value]

\* coordinator.py 75: modbus_item.state = await mbo.get_value()
StoreState(reg, n, value) == [reg EXCEPT ![n].state = value]

Advance(todo, res, reg, en, conn) ==
    IF todo = <<>>
    THEN [todo |-> todo, results |-> res, registry |-> reg, wait |-> FALSE]
    ELSE LET index == Head(todo) IN
         IF index >= Len(reg)
         THEN Advance(Tail(todo), res, reg, en, conn)
         ELSE LET it == reg[index + 1] IN
              IF ~check_configured(it.device, en) \/ it.type \notin TYPES
              THEN Advance(Tail(todo), res, reg, en, conn)
              ELSE IF GetValuePath(conn, it.is_invalid, it.type)
                        \in {"input", "holding"}
              THEN [todo |-> todo, results |-> res, registry |-> reg,
                    wait |-> TRUE]
              ELSE Advance(Tail(todo), Put(res, it.key, Absent),
                           StoreState(reg, index + 1, Absent),
                           en, conn)

\* variant of ProceedsAfter: the cycle goes on whatever connect() returned
ProceedsAfter_Always(ret) == TRUE

\* coordinator.py 137-141 and 103: the cycle goes on to the items only when
\* connect() returned a true status
ProceedsAfter(ret) == ret = "True"

\* no poll cycle under way
NoCycle ==
    [stage |-> "idle", to_update |-> <<>>, todo |-> <<>>,
     connected_at_start |-> FALSE,
     connects |-> 0, connect_ret |-> "None", reads |-> <<>>,
     raised |-> {}, outcome |-> "none", previous |-> {}]

\* coordinator.py 85-94: _async_setup has not been called.  The record says
\* whether the transport handle is there, how far the run is, how many
\* connect calls it made and with which startup argument, the path the call
\* took, client.connected as the run read it, and the exception it raised
NoSetup ==
    [handle |-> TRUE, stage |-> "none", calls |-> 0, startup |-> FALSE,
     path |-> "none", connected_after |-> FALSE, error |-> "none"]

\* coordinator.py 85-94: the record of a run of _async_setup that succeeded
SetupDone ==
    [handle |-> TRUE, stage |-> "ready", calls |-> 1, startup |-> TRUE,
     path |-> "connected", connected_after |-> TRUE, error |-> "none"]

\* get_value_from_item has not been called: the identifier asked for, the
\* value returned and how the latest poll cycle had ended by then
NoLookup == [key |-> "none", value |-> Absent, after |-> "none"]

\* modbusobject.py 47-54: _log_backoff_start has not run: how often it ran
\* since the last successful connect (or since construction), and whether
\* it ran before that
NoNotice == [episode |-> 0, earlier |-> FALSE]

\* entities.py 165-185: no entity write is under way
NoWrite ==
    [stage |-> "idle", val |-> Absent, connect |-> "none", sent |-> FALSE,
     error |-> "none", before |-> Absent]

\* a coordinator that is not polling
PollIdle ==
    /\ registry = <<>>
    /\ enabled = {}
    /\ cycle = NoCycle
    /\ results = {}
    /\ setup = NoSetup
    /\ looked = NoLookup
    /\ notified = NoNotice
    /\ write = NoWrite

NoCall ==
    [startup |-> FALSE, path |-> "none", ret |-> "None", closed |-> FALSE,
     logged |-> FALSE, backoff |-> 0]

TypeOK ==
    /\ connect_pending \in BOOLEAN
    /\ failed_reconnect_counter \in 0..MaxFailures
    /\ last_connection_try \in TimeGrid \cup {None}
    /\ connected \in BOOLEAN
    /\ now \in TimeGrid
    /\ pc \in [Callers -> {"idle", "awaiting"}]
    /\ episode_backoff \in 0..BACKOFF_MAX_SECONDS

\* ModbusAPI.__init__
ConnInit ==
    /\ connect_pending = FALSE
    /\ failed_reconnect_counter = 0
    /\ last_connection_try = None
    /\ connected = FALSE
    /\ now = 0
    /\ pc = [c \in Callers |-> "idle"]
    /\ last_call = NoCall
    /\ episode_backoff = 0

\* the connection manager as constructed, no register object in use
Init == ConnInit /\ ObjIdle /\ PollIdle

\* what has to hold for caller c to call connect:
\* _async_setup and set_translate_val call it unconditionally,
\* _ensure_connection only when the client is not connected
MayCall(c) ==
    /\ pc[c] = "idle"
    /\ c = "poll" => ~connected

\* connect() entered while another attempt is in flight (lines 58-60)
ConnectPending(c) ==
    /\ MayCall(c)
    /\ GuardBlocks(connect_pending)
    /\ last_call' = [startup |-> StartupOf(c), path |-> "pending",
                     ret |-> IF connected THEN "True" ELSE "False",
                     closed |-> FALSE, logged |-> FALSE,
                     backoff |-> last_call.backoff]
    /\ UNCHANGED <<connect_pending, failed_reconnect_counter,
                   last_connection_try, connected, now, pc, episode_backoff>>

\* variant of ConnectSkipped: the skipped call records the attempt time
ConnectSkipped_RecordsAttempt(c) ==
    LET b == Backoff(failed_reconnect_counter, StartupOf(c)) IN
    /\ MayCall(c)
    /\ ~GuardBlocks(connect_pending)
    /\ SkipsAttempt(failed_reconnect_counter, last_connection_try, now,
                    StartupOf(c))
    /\ connect_pending' = PendingAfterExit("skipped")
    /\ last_connection_try' = now
    /\ last_call' = [startup |-> StartupOf(c), path |-> "skipped",
                     ret |-> "False", closed |-> FALSE, logged |-> FALSE,
                     backoff |-> b]
    /\ episode_backoff' = IF StartupOf(c) THEN episode_backoff ELSE b
    /\ UNCHANGED <<failed_reconnect_counter, connected, now, pc>>

\* connect() skipped by backoff (lines 62-93, then the finally clause)
ConnectSkipped(c) ==
    LET b == Backoff(failed_reconnect_counter, StartupOf(c)) IN
    /\ MayCall(c)
    /\ ~GuardBlocks(connect_pending)
    /\ SkipsAttempt(failed_reconnect_counter, last_connection_try, now,
                    StartupOf(c))
    /\ connect_pending' = PendingAfterExit("skipped")
    /\ last_call' = [startup |-> StartupOf(c), path |-> "skipped",
                     ret |-> "False", closed |-> FALSE, logged |-> FALSE,
                     backoff |-> b]
    /\ episode_backoff' = IF StartupOf(c) THEN episode_backoff ELSE b
    /\ UNCHANGED <<failed_reconnect_counter, last_connection_try, connected,
                   now, pc>>

\* connect() up to the await of the transport's connect (lines 62-106)
ConnectAttempt(c) ==
    LET b == Backoff(failed_reconnect_counter, StartupOf(c)) IN
    /\ MayCall(c)
    /\ ~GuardBlocks(connect_pending)
    /\ ~SkipsAttempt(failed_reconnect_counter, last_connection_try, now,
                     StartupOf(c))
    /\ connect_pending' = TRUE
    /\ last_connection_try' = now
    /\ pc' = [pc EXCEPT ![c] = "awaiting"]
    /\ last_call' = [startup |-> StartupOf(c), path |-> "awaiting",
                     ret |-> "None", closed |-> FALSE, logged |-> FALSE,
                     backoff |-> b]
    /\ episode_backoff' = IF StartupOf(c) THEN episode_backoff ELSE b
    /\ UNCHANGED <<failed_reconnect_counter, connected, now>>

\* a call of connect by caller c, whatever path it takes up to its first
\* suspension or return
Connect(c) == ConnectPending(c) \/ ConnectSkipped(c) \/ ConnectAttempt(c)

\* the transport's connect has ended with outcome o: lines 108-179 and the
\* finally clause.  The transport may only fail while the counter is below
\* MaxFailures.
ConnectReturn(c, o) ==
    LET f == failed_reconnect_counter
        s == StartupOf(c)
        closes == ClosesTransport(o, f, s) IN
    /\ pc[c] = "awaiting"
    /\ o \in FailedOutcomes => f < MaxFailures
    /\ failed_reconnect_counter' = CounterAfter(o, f)
    /\ connected' = (o = "connected")
    /\ connect_pending' = PendingAfterExit(o)
    /\ pc' = [pc EXCEPT ![c] = "idle"]
    /\ last_call' = [startup |-> s, path |-> o,
                     ret |-> IF o = "connected" THEN "True" ELSE "False",
                     closed |-> closes,
                     logged |-> LogsBackoffStart(o, f, s),
                     backoff |-> last_call.backoff]
    /\ episode_backoff' = IF o = "connected" THEN 0 ELSE episode_backoff
    /\ UNCHANGED <<last_connection_try, now>>

\* variant of ConnectCancelled: the cancelled attempt is counted as a failure
ConnectCancelled_CountsFailure(c) ==
    /\ c = "poll"
    /\ pc[c] = "awaiting"
    /\ failed_reconnect_counter < MaxFailures
    /\ connect_pending' = PendingAfterExit("cancelled")
    /\ pc' = [pc EXCEPT ![c] = "idle"]
    /\ connected' \in BOOLEAN
    /\ failed_reconnect_counter' = failed_reconnect_counter + 1
    /\ last_call' = [startup |-> StartupOf(c), path |-> "cancelled",
                     ret |-> "None", closed |-> FALSE, logged |-> FALSE,
                     backoff |-> last_call.backoff]
    /\ UNCHANGED <<last_connection_try, now, episode_backoff>>

\* the poll cycle's asyncio.timeout(10) cancels the task while it awaits the
\* transport: CancelledError is no Exception, only the finally clause runs
ConnectCancelled(c) ==
    /\ c = "poll"
    /\ pc[c] = "awaiting"
    /\ connect_pending' = PendingAfterExit("cancelled")
    /\ pc' = [pc EXCEPT ![c] = "idle"]
    /\ connected' \in BOOLEAN
    /\ last_call' = [startup |-> StartupOf(c), path |-> "cancelled",
                     ret |-> "None", closed |-> FALSE, logged |-> FALSE,
                     backoff |-> last_call.backoff]
    /\ UNCHANGED <<failed_reconnect_counter, last_connection_try, now,
                   episode_backoff>>

\* the device or the network drops an established connection
ConnectionLost ==
    /\ connected
    /\ connected' = FALSE
    /\ UNCHANGED <<connect_pending, failed_reconnect_counter,
                   last_connection_try, now, pc, last_call, episode_backoff>>

\* loop.time() advances to a later observed instant
Tick ==
    /\ \E t \in TimeGrid : t > now /\ now' = t
    /\ UNCHANGED <<connect_pending, failed_reconnect_counter,
                   last_connection_try, connected, pc, last_call,
                   episode_backoff>>

Next ==
    \/ (\E c \in Callers : ConnectPending(c)) /\ UNCHANGED <<objvars, pollvars>>
    \/ (\E c \in Callers : ConnectSkipped(c)) /\ UNCHANGED <<objvars, pollvars>>
    \/ (\E c \in Callers : ConnectAttempt(c)) /\ UNCHANGED <<objvars, pollvars>>
    \/ (\E c \in Callers, o \in Outcomes : ConnectReturn(c, o))
            /\ UNCHANGED <<objvars, pollvars>>
    \/ (\E c \in Callers : ConnectCancelled(c)) /\ UNCHANGED <<objvars, pollvars>>
    \/ ConnectionLost /\ UNCHANGED <<objvars, pollvars>>
    \/ Tick /\ UNCHANGED <<objvars, pollvars>>

Spec == Init /\ [][Next]_vars

\* ------------------------------------------- the value checks on their own
\* check_valid_result applied to an integer v for the item's format
CheckValidResult(v) ==
    LET r == check_valid_result(item.format, v) IN
    /\ item' = [item EXCEPT !.is_invalid = r.invalid]
    /\ result' = [fn |-> "check_valid_result", arg |-> v, res |-> r.res,
                  raised |-> "none"]
    /\ UNCHANGED <<no_connect_warn, op, request>>

\* check_valid_response applied to an integer n for the item's format
CheckValidResponse(n) ==
    /\ result' = [fn |-> "check_valid_response", arg |-> n,
                  res |-> Some(check_valid_response(item.format, n)),
                  raised |-> "none"]
    /\ UNCHANGED <<item, no_connect_warn, op, request>>

\* check_valid_result applied to what check_valid_response just produced
DecodeEncoded ==
    LET r == check_valid_result(item.format, result.res.val) IN
    /\ result.fn = "check_valid_response"
    /\ item' = [item EXCEPT !.is_invalid = r.invalid]
    /\ result' = [fn |-> "round_trip", arg |-> result.arg, res |-> r.res,
                  raised |-> "none"]
    /\ UNCHANGED <<no_connect_warn, op, request>>

CodecInit == ConnInit /\ ObjInit /\ PollIdle

CodecNext ==
    \/ (\E v \in IntSamples : CheckValidResult(v))
            /\ UNCHANGED <<connvars, pollvars>>
    \/ (\E n \in IntSamples : CheckValidResponse(n))
            /\ UNCHANGED <<connvars, pollvars>>
    \/ DecodeEncoded /\ UNCHANGED <<connvars, pollvars>>

SpecCodec == CodecInit /\ [][CodecNext]_vars

\* ------------------------------------------- the register object's calls
\* get_value up to the await of the register read, or to its return when
\* no read is made (lines 349-380)
GetValueCall ==
    LET path == GetValuePath(connected, item.is_invalid, item.type) IN
    /\ op = NoOp
    /\ IF path \in {"input", "holding"}
       THEN /\ op' = [name |-> "get_value", arg |-> 0]
            /\ request' = [kind |-> path, address |-> item.address,
                           value |-> 0, count |-> 1]
            /\ result' = [fn |-> "get_value", arg |-> 0, res |-> Absent,
                          raised |-> "running"]
       ELSE /\ op' = NoOp
            /\ request' = NoRequest
            /\ result' = [fn |-> "get_value", arg |-> 0, res |-> Absent,
                          raised |-> "none"]
    /\ UNCHANGED <<item, no_connect_warn>>

\* the read is answered by mbr: validate_modbus_answer and the return
\* (lines 365-373)
GetValueReturn(mbr) ==
    LET r == validate_modbus_answer(item.format, item.is_invalid, mbr) IN
    /\ op.name = "get_value"
    /\ item' = [item EXCEPT !.is_invalid = r.invalid]
    /\ result' = [fn |-> "get_value", arg |-> 0, res |-> r.res,
                  raised |-> "none"]
    /\ op' = NoOp
    /\ UNCHANGED <<no_connect_warn, request>>

\* the read raises e: caught and answered by None, or passed on to the
\* caller (lines 381-387)
GetValueRaise(e) ==
    /\ op.name = "get_value"
    /\ result' = [fn |-> "get_value", arg |-> 0, res |-> Absent,
                  raised |-> IF Catches(e) THEN "none" ELSE e]
    /\ op' = NoOp
    /\ UNCHANGED <<item, no_connect_warn, request>>

\* set_value(value) up to the await of the register write, or to its return
\* when no write is made (lines 396-410)
SetValueCall(value) ==
    LET path == SetValuePath(connected, item.type) IN
    /\ op = NoOp
    /\ IF path = "write"
       THEN /\ op' = [name |-> "set_value", arg |-> value]
            /\ request' = [kind |-> "write", address |-> item.address,
                           value |-> check_valid_response(item.format, value),
                           count |-> 1]
            /\ result' = [fn |-> "set_value", arg |-> value, res |-> Absent,
                          raised |-> "running"]
       ELSE /\ op' = NoOp
            /\ request' = NoRequest
            /\ result' = [fn |-> "set_value", arg |-> value, res |-> Absent,
                          raised |-> "none"]
    /\ UNCHANGED <<item, no_connect_warn>>

\* the write is answered: set_value returns None
SetValueReturn ==
    /\ op.name = "set_value"
    /\ result' = [result EXCEPT !.raised = "none"]
    /\ op' = NoOp
    /\ UNCHANGED <<item, no_connect_warn, request>>

\* the write raises e (lines 411-418)
SetValueRaise(e) ==
    /\ op.name = "set_value"
    /\ result' = [result EXCEPT !.raised = IF Catches(e) THEN "none" ELSE e]
    /\ op' = NoOp
    /\ UNCHANGED <<item, no_connect_warn, request>>

\* the transport gets connected or loses its connection
TransportSwitch ==
    /\ connected' = ~connected
    /\ UNCHANGED <<connect_pending, failed_reconnect_counter,
                   last_connection_try, now, pc, last_call, episode_backoff>>

RegInit == ConnInit /\ ObjInit /\ PollIdle

RegNext ==
    \/ GetValueCall /\ UNCHANGED <<connvars, pollvars>>
    \/ (\E mbr \in Responses : GetValueReturn(mbr))
            /\ UNCHANGED <<connvars, pollvars>>
    \/ (\E e \in Raises : GetValueRaise(e))
            /\ UNCHANGED <<connvars, pollvars>>
    \/ (\E v \in IntSamples : SetValueCall(v))
            /\ UNCHANGED <<connvars, pollvars>>
    \/ SetValueReturn /\ UNCHANGED <<connvars, pollvars>>
    \/ (\E e \in Raises : SetValueRaise(e))
            /\ UNCHANGED <<connvars, pollvars>>
    \/ TransportSwitch /\ UNCHANGED <<objvars, pollvars>>

SpecReg == RegInit /\ [][RegNext]_vars

\* ------------------------------------------------------- the poll cycle
\* the state left by a successful _async_setup (coordinator.py 85-94)
PollInit ==
    /\ connect_pending = FALSE
    /\ failed_reconnect_counter = 0
    /\ last_connection_try = 0
    /\ connected = TRUE
    /\ now = 0
    /\ pc = [c \in Callers |-> "idle"]
    /\ last_call = [startup |-> TRUE, path |-> "connected", ret |-> "True",
                    closed |-> FALSE, logged |-> FALSE, backoff |-> 0]
    /\ episode_backoff = 0
    /\ ObjIdle
    /\ registry \in Registries
    /\ enabled \in {{"HZ2"}} \cup
                    (IF registry[2].device = "HZ2" THEN {{}} ELSE {})
    /\ cycle = NoCycle
    /\ results = {}
    /\ setup = SetupDone
    /\ looked = NoLookup
    /\ notified = NoNotice
    /\ write = NoWrite

\* fetch_data goes on from adv, the run of Advance: it waits for a register
\* read or returns results
Continue(c, adv) ==
    /\ cycle' = [c EXCEPT
                    !.stage = IF adv.wait THEN "reading" ELSE "returned",
                    !.todo = adv.todo,
                    !.reads = IF adv.wait THEN Append(c.reads, Head(adv.todo))
                              ELSE c.reads,
                    !.outcome = IF adv.wait THEN "none" ELSE "results"]
    /\ results' = adv.results
    /\ registry' = adv.registry

\* variant of ReturnEmpty: the cycle returns what it has collected
ReturnEmpty_KeepsResults(c) ==
    /\ cycle' = [c EXCEPT !.stage = "returned", !.todo = <<>>,
                          !.outcome = "results"]
    /\ UNCHANGED <<results, registry>>

\* the cycle returns {} (coordinator.py 104, 150, 153)
\* variant of ReturnEmpty: the items the cycle has read are set back to no
\* value, to agree with the empty snapshot
ReturnEmpty_RollsBack(c) ==
    /\ cycle' = [c EXCEPT !.stage = "returned", !.todo = <<>>,
                          !.outcome = "empty"]
    /\ results' = {}
    /\ registry' = [n \in DOMAIN registry |->
                       IF \E k \in DOMAIN c.reads : c.reads[k] = n - 1
                       THEN [registry[n] EXCEPT !.state = Absent,
                                                !.is_invalid = FALSE]
                       ELSE registry[n]]

ReturnEmpty(c) ==
    /\ cycle' = [c EXCEPT !.stage = "returned", !.todo = <<>>,
                          !.outcome = "empty"]
    /\ results' = {}
    /\ UNCHANGED registry

\* coordinator.py 149-154: the exceptions _async_update_data turns into {}
CycleCatches(e) == e \in {"ModbusException", "TimeoutError"}

\* the exception a failure path of connect() stands for
ExceptionOf(o) ==
    CASE o = "modbus_exc" -> "ModbusException"
      [] o = "network_exc" -> "OSError"
      [] o = "unexpected_exc" -> "Exception"
      [] OTHER -> "none"

\* cycle record c after exception e was raised at the await of a connect or
\* of a read; a CancelledError is the cycle's timeout cancelling the task
Raised(c, at, e) ==
    IF e = "none" THEN c
    ELSE [c EXCEPT !.raised = @ \cup {[at |-> at, e |-> e]}]

\* the keys of a snapshot
Keys(snapshot) == {e.key : e \in snapshot}

\* variant of FreshResults: the cycle goes on filling the previous mapping
FreshResults_Accumulating(prev) == prev

\* coordinator.py 106: the mapping a cycle starts to fill
FreshResults(prev) == {}

\* what the cycle before the one that begins now has returned
Returned == IF cycle.outcome \in {"results", "empty"} THEN results ELSE {}

\* a cycle may begin when none is under way
MayPoll == cycle.stage \in {"idle", "returned"}

\* _async_update_data, fetch_data, _ensure_connection with a connected
\* client: no connect call, the items are read
CycleStartConnected(idx) ==
    /\ MayPoll
    /\ connected
    /\ \E tu \in ToUpdate(idx, registry) :
          Continue([NoCycle EXCEPT !.connected_at_start = TRUE,
                                   !.to_update = tu,
                                   !.previous = Keys(Returned)],
                   Advance(tu, FreshResults(Returned), registry, enabled,
                           TRUE))
    /\ UNCHANGED <<connvars, objvars, enabled, setup, looked, notified, write>>

\* the cycle's connect call has come back without awaiting the transport
EnsureReturned(tu) ==
    LET c == [NoCycle EXCEPT !.connects = 1, !.to_update = tu, !.todo = tu,
                             !.connect_ret = last_call'.ret,
                             !.previous = Keys(Returned)] IN
    IF ProceedsAfter(last_call'.ret)
    THEN Continue(c, Advance(tu, FreshResults(Returned), registry, enabled,
                             connected'))
    ELSE ReturnEmpty(c)

\* the cycle starts without a connection and connect() is blocked by the
\* in-flight guard
CycleStartGuarded(idx) ==
    /\ MayPoll
    /\ ~connected
    /\ ConnectPending("poll")
    /\ \E tu \in ToUpdate(idx, registry) : EnsureReturned(tu)
    /\ UNCHANGED <<objvars, enabled, setup, looked, notified, write>>

\* the cycle starts without a connection and connect() is skipped by backoff
CycleStartSkipped(idx) ==
    /\ MayPoll
    /\ ~connected
    /\ ConnectSkipped("poll")
    /\ \E tu \in ToUpdate(idx, registry) : EnsureReturned(tu)
    /\ UNCHANGED <<objvars, enabled, setup, looked, notified, write>>

\* the cycle starts without a connection and connect() awaits the transport
CycleStartAttempt(idx) ==
    /\ MayPoll
    /\ ~connected
    /\ ConnectAttempt("poll")
    /\ \E tu \in ToUpdate(idx, registry) :
          cycle' = [NoCycle EXCEPT !.stage = "connecting", !.connects = 1,
                                   !.to_update = tu, !.todo = tu,
                                   !.previous = Keys(Returned)]
    /\ results' = FreshResults(Returned)
    /\ UNCHANGED <<objvars, registry, enabled, setup, looked, notified, write>>

\* the cycle's connect attempt ends with outcome o
CycleConnectReturn(o) ==
    /\ cycle.stage = "connecting"
    /\ ConnectReturn("poll", o)
    /\ LET c == Raised([cycle EXCEPT !.connect_ret = last_call'.ret],
                       "connect", ExceptionOf(o)) IN
       IF ProceedsAfter(last_call'.ret)
       THEN Continue(c, Advance(cycle.todo, results, registry, enabled,
                                connected'))
       ELSE ReturnEmpty(c)
    /\ UNCHANGED <<objvars, enabled, setup, looked, notified, write>>

\* the register read the cycle waits for is answered by mbr
CycleReadReturn(mbr) ==
    /\ cycle.stage = "reading"
    /\ LET index == Head(cycle.todo)
           it == registry[index + 1]
           r == validate_modbus_answer(it.format, it.is_invalid, mbr)
           reg == StoreState(
                      [registry EXCEPT ![index + 1].is_invalid = r.invalid],
                      index + 1, r.res)
       IN Continue(cycle, Advance(Tail(cycle.todo),
                                  Put(results, it.key, r.res), reg,
                                  enabled, connected))
    /\ UNCHANGED <<connvars, objvars, enabled, setup, looked, notified, write>>

\* the register read the cycle waits for raises e: get_value turns a
\* ModbusException into None and the cycle goes on; any other exception
\* passes through get_value, coordinator.get_value and fetch_data, and
\* _async_update_data turns it into {} or lets it pass
CycleReadRaise(e) ==
    /\ cycle.stage = "reading"
    /\ LET index == Head(cycle.todo)
           it == registry[index + 1]
           reg == StoreState(registry, index + 1, Absent)
           c == Raised(cycle, "read", e)
       IN IF Catches(e)
          THEN Continue(c, Advance(Tail(cycle.todo),
                                   Put(results, it.key, Absent), reg,
                                   enabled, connected))
          ELSE IF CycleCatches(e)
          THEN ReturnEmpty(c)
          ELSE /\ cycle' = [c EXCEPT !.stage = "returned", !.todo = <<>>,
                                     !.outcome = "raised"]
               /\ UNCHANGED <<registry, results>>
    /\ UNCHANGED <<connvars, objvars, enabled, setup, looked, notified, write>>

\* asyncio.timeout(10) ends the cycle while connect() awaits the transport
CycleTimeoutConnecting ==
    /\ cycle.stage = "connecting"
    /\ ConnectCancelled("poll")
    /\ ReturnEmpty(Raised(cycle, "connect", "CancelledError"))
    /\ UNCHANGED <<objvars, enabled, setup, looked, notified, write>>

\* asyncio.timeout(10) ends the cycle while it awaits a register read
CycleTimeoutReading ==
    /\ cycle.stage = "reading"
    /\ ReturnEmpty(Raised(cycle, "read", "CancelledError"))
    /\ UNCHANGED <<connvars, objvars, enabled, setup, looked, notified, write>>

\* an entity writes a value: set_translate_val calls connect() first
WriteConnect ==
    \/ ConnectPending("write")
    \/ ConnectSkipped("write")
    \/ ConnectAttempt("write")

\* the clock advances between the steps of the poll cycles
PollTick ==
    /\ \E t \in PollGrid : t > now /\ now' = t
    /\ UNCHANGED <<connect_pending, failed_reconnect_counter,
                   last_connection_try, connected, pc, last_call,
                   episode_backoff>>

PollNext ==
    \/ \E idx \in IdxArguments : CycleStartConnected(idx)
    \/ \E idx \in IdxArguments : CycleStartGuarded(idx)
    \/ \E idx \in IdxArguments : CycleStartSkipped(idx)
    \/ \E idx \in IdxArguments : CycleStartAttempt(idx)
    \/ \E o \in Outcomes : CycleConnectReturn(o)
    \/ \E mbr \in PollResponses : CycleReadReturn(mbr)
    \/ \E e \in Raises : CycleReadRaise(e)
    \/ CycleTimeoutConnecting
    \/ CycleTimeoutReading
    \/ WriteConnect /\ UNCHANGED <<objvars, pollvars>>
    \/ (\E o \in Outcomes : ConnectReturn("write", o))
            /\ UNCHANGED <<objvars, pollvars>>
    \/ ConnectionLost /\ UNCHANGED <<objvars, pollvars>>
    \/ PollTick /\ UNCHANGED <<objvars, pollvars>>

SpecPoll == PollInit /\ [][PollNext]_vars

\* ------------------------------------------------- the end of an outage
\* the instant the device has become reachable again, taken as the origin
\* of the clock: the transport is not connected, f attempts have failed
\* since the last success, the last of them (or, for f = 0, the last
\* success) was started just now, and an entity write may be awaiting the
\* transport's connect
LiveInit ==
    /\ failed_reconnect_counter \in 0..MaxFailures
    /\ connect_pending \in BOOLEAN
    /\ last_connection_try = 0
    /\ connected = FALSE
    /\ now = 0
    /\ pc = [c \in Callers |->
                IF c = "write" /\ connect_pending THEN "awaiting" ELSE "idle"]
    /\ episode_backoff =
          IF failed_reconnect_counter = 0 THEN 0
          ELSE Backoff(failed_reconnect_counter - 1, FALSE)
    /\ last_call =
          IF connect_pending
          THEN [startup |-> FALSE, path |-> "awaiting", ret |-> "None",
                closed |-> FALSE, logged |-> FALSE,
                backoff |-> Backoff(failed_reconnect_counter, FALSE)]
          ELSE IF failed_reconnect_counter = 0
          THEN [startup |-> FALSE, path |-> "connected", ret |-> "True",
                closed |-> FALSE, logged |-> FALSE, backoff |-> 0]
          ELSE [startup |-> FALSE, path |-> "not_connected", ret |-> "False",
                closed |-> ClosesTransport("not_connected",
                                           failed_reconnect_counter - 1, FALSE),
                logged |-> LogsBackoffStart("not_connected",
                                            failed_reconnect_counter - 1, FALSE),
                backoff |-> Backoff(failed_reconnect_counter - 1, FALSE)]
    /\ ObjIdle
    /\ registry \in {r \in Registries : r[2].device = "HZ2"}
    /\ enabled = {"HZ2"}
    /\ cycle = NoCycle
    /\ results = {}
    /\ setup = SetupDone
    /\ looked = NoLookup
    /\ notified = NoNotice
    /\ write = NoWrite

\* _async_update_data is called by the update coordinator: fetch_data()
\* without idx (coordinator.py 148)
ScheduledCycle ==
    \/ CycleStartConnected({})
    \/ CycleStartGuarded({})
    \/ CycleStartSkipped({})
    \/ CycleStartAttempt({})

\* the reachable device accepts the connection of the cycle
DeviceConnects == CycleConnectReturn("connected")

\* the reachable device answers the register read of the cycle
DeviceAnswers == \E mbr \in PollResponses : CycleReadReturn(mbr)

\* the connect of the entity write that was under way comes back; it was
\* started during the outage and may have failed
WriteConnectEnds ==
    (\E o \in Outcomes : ConnectReturn("write", o))
        /\ UNCHANGED <<objvars, pollvars>>

\* the instants the end of the outage is observed at: its start and the
\* ends of the backoff windows
LiveGrid == {0} \cup {Backoff(f, FALSE) : f \in 0..(MaxFailures + 1)}

\* time advances
ClockAdvances ==
    /\ \E t \in LiveGrid : t > now /\ now' = t
    /\ UNCHANGED <<connect_pending, failed_reconnect_counter,
                   last_connection_try, connected, pc, last_call,
                   episode_backoff>>
    /\ UNCHANGED <<objvars, pollvars>>

LiveNext ==
    \/ ScheduledCycle
    \/ DeviceConnects
    \/ DeviceAnswers
    \/ WriteConnectEnds
    \/ ClockAdvances

\* poll cycles keep being scheduled, the device keeps answering and time
\* keeps advancing
SpecLive ==
    /\ LiveInit
    /\ [][LiveNext]_vars
    /\ WF_vars(ScheduledCycle)
    /\ WF_vars(DeviceConnects)
    /\ WF_vars(DeviceAnswers)
    /\ WF_vars(WriteConnectEnds)
    /\ WF_vars(ClockAdvances)


\* --------------------------------------------------- coordinator setup
\* the connection manager when _async_setup is called: nothing attempted
\* yet, or f attempts failed since the last success with the last one
\* started just now; an entity write may be awaiting the transport's
\* connect; the transport handle is there or not
SetupInit ==
    /\ failed_reconnect_counter \in 0..MaxFailures
    /\ connect_pending \in BOOLEAN
    /\ last_connection_try \in
          (IF failed_reconnect_counter = 0 /\ ~connect_pending
           THEN {None, 0} ELSE {0})
    /\ connected = FALSE
    /\ now = 0
    /\ pc = [c \in Callers |->
                IF c = "write" /\ connect_pending THEN "awaiting" ELSE "idle"]
    /\ episode_backoff =
          IF failed_reconnect_counter = 0 THEN 0
          ELSE Backoff(failed_reconnect_counter - 1, FALSE)
    /\ last_call =
          IF connect_pending
          THEN [startup |-> FALSE, path |-> "awaiting", ret |-> "None",
                closed |-> FALSE, logged |-> FALSE,
                backoff |-> Backoff(failed_reconnect_counter, FALSE)]
          ELSE IF last_connection_try = None
          THEN NoCall
          ELSE IF failed_reconnect_counter = 0
          THEN [startup |-> FALSE, path |-> "connected", ret |-> "True",
                closed |-> FALSE, logged |-> FALSE, backoff |-> 0]
          ELSE [startup |-> FALSE, path |-> "not_connected", ret |-> "False",
                closed |-> ClosesTransport("not_connected",
                                           failed_reconnect_counter - 1, FALSE),
                logged |-> LogsBackoffStart("not_connected",
                                            failed_reconnect_counter - 1, FALSE),
                backoff |-> Backoff(failed_reconnect_counter - 1, FALSE)]
    /\ ObjIdle
    /\ registry = <<>>
    /\ enabled = {}
    /\ cycle = NoCycle
    /\ results = {}
    /\ setup \in {[NoSetup EXCEPT !.handle = h] : h \in BOOLEAN}
    /\ looked = NoLookup
    /\ notified = NoNotice
    /\ write = NoWrite

\* variant of SetupSucceeds: the run succeeds whatever the transport says
SetupSucceeds_Always(conn) == TRUE

\* coordinator.py 92: the run goes on when client.connected holds
SetupSucceeds(conn) == conn

\* coordinator.py 92-94: connect has returned by path, the run reads
\* client.connected and ends
SetupChecked(s, conn, path) ==
    [s EXCEPT !.path = path,
              !.connected_after = conn,
              !.stage = IF SetupSucceeds(conn) THEN "ready" ELSE "failed",
              !.error = IF SetupSucceeds(conn) THEN "none"
                        ELSE "ConfigEntryNotReady"]

\* coordinator.py 87-89: no transport handle
SetupNoHandle ==
    /\ setup.stage = "none"
    /\ ~setup.handle
    /\ setup' = [setup EXCEPT !.stage = "failed",
                              !.error = "ConfigEntryNotReady"]
    /\ UNCHANGED <<connvars, objvars, registry, enabled, cycle, results, looked, notified,
                   write>>

\* coordinator.py 91: connect(startup=True) is called; it returns at once
\* (guard held, or skipped), and the run ends, or it awaits the transport
SetupConnect ==
    /\ setup.stage = "none"
    /\ setup.handle
    /\ Connect("setup")
    /\ setup' =
          LET called == [setup EXCEPT !.calls = @ + 1,
                                      !.startup = StartupOf("setup"),
                                      !.path = last_call'.path] IN
          IF pc'["setup"] = "awaiting"
          THEN [called EXCEPT !.stage = "connecting"]
          ELSE SetupChecked(called, connected', last_call'.path)
    /\ UNCHANGED <<objvars, registry, enabled, cycle, results, looked, notified,
                   write>>

\* coordinator.py 91-94: the transport's connect ends with outcome o, connect
\* returns and the run ends
SetupConnectReturn(o) ==
    /\ setup.stage = "connecting"
    /\ ConnectReturn("setup", o)
    /\ setup' = SetupChecked(setup, connected', o)
    /\ UNCHANGED <<objvars, registry, enabled, cycle, results, looked, notified,
                   write>>

SetupNext ==
    \/ SetupNoHandle
    \/ SetupConnect
    \/ \E o \in Outcomes : SetupConnectReturn(o)
    \/ WriteConnectEnds
    \/ Tick /\ UNCHANGED <<objvars, pollvars>>

SpecSetup == SetupInit /\ [][SetupNext]_vars


\* ------------------------------------------------------ the point lookup
\* variant of get_value_from_item: the last item with the identifier counts
get_value_from_item_LastMatch(reg, translation_key) ==
    LET matches == {n \in 1..Len(reg) : reg[n].key = translation_key} IN
    IF matches = {} THEN Absent
    ELSE reg[CHOOSE n \in matches : \A m \in matches : m <= n].state

\* coordinator.py 78-83: the state of the first item with the identifier,
\* None when there is none
get_value_from_item(reg, translation_key) ==
    LET matches == {n \in 1..Len(reg) : reg[n].key = translation_key} IN
    IF matches = {} THEN Absent
    ELSE reg[CHOOSE n \in matches : \A m \in matches : n <= m].state

\* a registry in which two items share an identifier: a writable number, a
\* sensor, and an item of no monitored kind
LookupRegistry ==
    << RegistryItem("k1", "HZ", "Number", "number", 0),
       RegistryItem("k1", "HZ", "Sensor", "temperature", 1),
       RegistryItem("k2", "WW", OtherType, "number", 0) >>

\* the identifiers looked up: one shared by two items, one of an item that
\* is never read, and one of no item
LookupKeys == {"k1", "k2", "k9"}

\* the values an entity writes
WrittenValues == {1}

\* the state after a successful setup, with the registry LookupRegistry
LookupInit ==
    /\ connect_pending = FALSE
    /\ failed_reconnect_counter = 0
    /\ last_connection_try = 0
    /\ connected = TRUE
    /\ now = 0
    /\ pc = [c \in Callers |-> "idle"]
    /\ last_call = [startup |-> TRUE, path |-> "connected", ret |-> "True",
                    closed |-> FALSE, logged |-> FALSE, backoff |-> 0]
    /\ episode_backoff = 0
    /\ ObjIdle
    /\ registry = LookupRegistry
    /\ enabled = {}
    /\ cycle = NoCycle
    /\ results = {}
    /\ setup = SetupDone
    /\ looked = NoLookup
    /\ notified = NoNotice
    /\ write = NoWrite

\* entities.py 373-376, 421-424: the end of an entity write to the item at
\* position n: set_translate_val has returned val, which is stored as the
\* state of the item
WriteStore(n, val) ==
    /\ n \in 1..Len(registry)
    /\ registry[n].type \in {"Number", "Select"}
    /\ registry' = [registry EXCEPT ![n].state = Some(val)]
    /\ UNCHANGED <<connvars, objvars, enabled, cycle, results, setup, looked, notified,
                   write>>

\* coordinator.py 78-83: get_value_from_item(translation_key) is called
Lookup(translation_key) ==
    /\ looked' = [key |-> translation_key,
                  value |-> get_value_from_item(registry, translation_key),
                  after |-> cycle.outcome]
    /\ UNCHANGED <<connvars, objvars, registry, enabled, cycle, results,
                   setup, notified, write>>

LookupNext ==
    \/ CycleStartConnected({})
    \/ CycleStartSkipped({})
    \/ CycleStartAttempt({})
    \/ \E o \in {"connected", "not_connected"} : CycleConnectReturn(o)
    \/ \E mbr \in PollResponses : CycleReadReturn(mbr)
    \/ ConnectionLost /\ UNCHANGED <<objvars, pollvars>>
    \/ \E n \in 1..Len(registry), val \in WrittenValues : WriteStore(n, val)
    \/ \E k \in LookupKeys : Lookup(k)

SpecLookup == LookupInit /\ [][LookupNext]_vars


\* ------------------------------------------------- backoff notifications
\* modbusobject.py 117, 122-126, 137-141, 152-156, 170-174: the record of the
\* notifications after an attempt of a call with this startup argument has
\* ended with outcome o at counter f
Notified(n, o, f, startup) ==
    IF o = "connected"
    THEN [episode |-> 0, earlier |-> n.earlier \/ n.episode > 0]
    ELSE IF LogsBackoffStart(o, f, startup)
    THEN [n EXCEPT !.episode = @ + 1]
    ELSE n

\* the transport's connect of caller c ends with outcome o
EpisodeReturn(c, o) ==
    /\ ConnectReturn(c, o)
    /\ notified' = Notified(notified, o, failed_reconnect_counter, StartupOf(c))
    /\ UNCHANGED <<objvars, registry, enabled, cycle, results, setup, looked,
                   write>>

EpisodeNext ==
    \/ (\E c \in Callers : ConnectPending(c)) /\ UNCHANGED <<objvars, pollvars>>
    \/ (\E c \in Callers : ConnectSkipped(c)) /\ UNCHANGED <<objvars, pollvars>>
    \/ (\E c \in Callers : ConnectAttempt(c)) /\ UNCHANGED <<objvars, pollvars>>
    \/ \E c \in Callers, o \in Outcomes : EpisodeReturn(c, o)
    \/ (\E c \in Callers : ConnectCancelled(c)) /\ UNCHANGED <<objvars, pollvars>>
    \/ ConnectionLost /\ UNCHANGED <<objvars, pollvars>>
    \/ ClockAdvances

\* the connection manager from its construction on, with the notifications
\* counted
SpecEpisode == Init /\ [][EpisodeNext]_vars

\* ------------------------------------------------------- entity writes
\* the items a number or a select entity is bound to, as constructed
WriteItems ==
    {d \in ItemDescriptors :
        /\ d.address = 0
        /\ \/ d.type = "Number" /\ d.format \in {"temperature", "number"}
           \/ d.type = "Select" /\ d.format = "status"}

\* the raw values set_translate_val computes from what the user asks for
\* (entities.py 171-175): int(float(value) * divider) for a number, the
\* number of the option for a select, -1 for an option that is not listed
WriteRequests == {Some(1), Some(0 - 1)}

\* items.py 226-235: a status item without a result list translates
\* every option to None
Translations(format) ==
    WriteRequests \cup (IF format = "status" THEN {Absent} ELSE {})

\* variant of StoreAfterWrite: the state follows the register, it is set
\* only when the write has been transmitted
StoreAfterWrite_OnlyIfSent(it, val, sent) ==
    IF sent THEN [it EXCEPT !.state = val] ELSE it

\* entities.py 375-376 and 423-424: if result is not None:
\* self._api_item.state = result
StoreAfterWrite(it, val, sent) == [it EXCEPT !.state = val]

\* entities.py 183-185 after connect() has returned: set_value up to the
\* await of the register write, or, when it returns without one
\* (modbusobject.py 396-403), on to the return of set_translate_val and the
\* assignment of the entity's handler
StartSetValue(conn, w) ==
    LET path == SetValuePath(conn, item.type) IN
    /\ IF path = "write"
       THEN /\ op' = [name |-> "set_value", arg |-> w.val.val]
            /\ request' = [kind |-> "write", address |-> item.address,
                           value |-> check_valid_response(item.format,
                                                          w.val.val),
                           count |-> 1]
            /\ result' = [fn |-> "set_value", arg |-> w.val.val,
                          res |-> Absent, raised |-> "running"]
            /\ item' = item
            /\ write' = [w EXCEPT !.stage = "writing", !.sent = TRUE]
       ELSE /\ op' = NoOp
            /\ request' = NoRequest
            /\ result' = [fn |-> "set_value", arg |-> w.val.val,
                          res |-> Absent, raised |-> "none"]
            /\ item' = StoreAfterWrite(item, w.val, FALSE)
            /\ write' = [w EXCEPT !.stage = "done"]
    /\ UNCHANGED no_connect_warn

\* the record of a write that starts: the requested raw value and the
\* state the item holds
Requested(val) ==
    [stage |-> "idle", val |-> val, connect |-> "none", sent |-> FALSE,
     error |-> "none", before |-> item.state]

\* no other write of the entity is under way
MayWrite ==
    /\ write.stage \in {"idle", "done"}
    /\ pc["write"] = "idle"
    /\ op = NoOp

\* the translation gives None: set_translate_val returns None before it
\* connects (entities.py 177-178) and the handler leaves the item alone
WriteUntranslated ==
    /\ MayWrite
    /\ Absent \in Translations(item.format)
    /\ write' = [Requested(Absent) EXCEPT !.stage = "done"]
    /\ UNCHANGED <<connvars, objvars, registry, enabled, cycle, results,
                   setup, looked, notified>>

\* the handler of a number or select entity up to its first suspension:
\* connect() is turned away by the in-flight guard, set_value follows at once
WriteGuarded(val) ==
    /\ MayWrite
    /\ ConnectPending("write")
    /\ StartSetValue(connected, [Requested(val) EXCEPT !.connect = "pending"])
    /\ UNCHANGED <<registry, enabled, cycle, results, setup, looked, notified>>

\* connect() is skipped by the backoff, set_value follows at once
WriteSkipped(val) ==
    /\ MayWrite
    /\ ConnectSkipped("write")
    /\ StartSetValue(connected, [Requested(val) EXCEPT !.connect = "skipped"])
    /\ UNCHANGED <<registry, enabled, cycle, results, setup, looked, notified>>

\* connect() awaits the transport's connect
WriteAttempt(val) ==
    /\ MayWrite
    /\ ConnectAttempt("write")
    /\ write' = [Requested(val) EXCEPT !.stage = "connecting",
                                       !.connect = "awaiting"]
    /\ UNCHANGED <<objvars, registry, enabled, cycle, results, setup, looked,
                   notified>>

\* the transport's connect ends with outcome o, connect() returns and
\* set_value follows
WriteConnectReturn(o) ==
    /\ write.stage = "connecting"
    /\ ConnectReturn("write", o)
    /\ StartSetValue(o = "connected", [write EXCEPT !.connect = o])
    /\ UNCHANGED <<registry, enabled, cycle, results, setup, looked, notified>>

\* the register write is answered: set_value and set_translate_val return
\* and the handler stores the value
WriteAnswered ==
    /\ write.stage = "writing"
    /\ op' = NoOp
    /\ result' = [result EXCEPT !.raised = "none"]
    /\ item' = StoreAfterWrite(item, write.val, TRUE)
    /\ write' = [write EXCEPT !.stage = "done"]
    /\ UNCHANGED <<connvars, no_connect_warn, request, registry, enabled,
                   cycle, results, setup, looked, notified>>

\* the register write raises e: set_value logs a ModbusException and returns
\* (modbusobject.py 411-418), any other exception leaves set_value,
\* set_translate_val and the handler before the assignment
WriteRaises(e) ==
    /\ write.stage = "writing"
    /\ op' = NoOp
    /\ result' = [result EXCEPT !.raised = IF Catches(e) THEN "none" ELSE e]
    /\ item' = IF Catches(e) THEN StoreAfterWrite(item, write.val, TRUE)
               ELSE item
    /\ write' = [write EXCEPT !.stage = "done",
                              !.error = IF Catches(e) THEN "none" ELSE e]
    /\ UNCHANGED <<connvars, no_connect_warn, request, registry, enabled,
                   cycle, results, setup, looked, notified>>

\* the coordinator's reconnect beside the writes
PollConnect ==
    \/ ConnectPending("poll")
    \/ ConnectSkipped("poll")
    \/ ConnectAttempt("poll")

\* a number or select entity on a connection manager as constructed
WriteInit ==
    /\ ConnInit
    /\ item \in WriteItems
    /\ no_connect_warn = FALSE
    /\ op = NoOp
    /\ request = NoRequest
    /\ result = NoResult
    /\ PollIdle

WriteNext ==
    \/ WriteUntranslated
    \/ \E val \in WriteRequests : WriteGuarded(val)
    \/ \E val \in WriteRequests : WriteSkipped(val)
    \/ \E val \in WriteRequests : WriteAttempt(val)
    \/ \E o \in Outcomes : WriteConnectReturn(o)
    \/ WriteAnswered
    \/ \E e \in Raises : WriteRaises(e)
    \/ PollConnect /\ UNCHANGED <<objvars, pollvars>>
    \/ (\E o \in Outcomes : ConnectReturn("poll", o))
            /\ UNCHANGED <<objvars, pollvars>>
    \/ ConnectionLost /\ UNCHANGED <<objvars, pollvars>>
    \/ ClockAdvances

\* entity writes beside the coordinator's reconnects
SpecWrite == WriteInit /\ [][WriteNext]_vars

\* ------------------------------------------------------------------ claims

\* the callers whose call is suspended in the transport's connect
InTransportConnect == {c \in Callers : pc[c] = "awaiting"}

StatusOf(b) == IF b THEN "True" ELSE "False"

\* C1: a connect call made while another attempt is in flight returns the
\* transport's current connected status at once: it does not reach the
\* transport's connect and leaves the failure counter, the last-attempt
\* timestamp and the guard as they were.
C1_PendingCallReturnsStatus ==
    [][\A c \in Callers :
        (connect_pending /\ Connect(c)) =>
            /\ last_call'.path = "pending"
            /\ last_call'.ret = StatusOf(connected)
            /\ pc'[c] = "idle"
            /\ InTransportConnect' = InTransportConnect
            /\ failed_reconnect_counter' = failed_reconnect_counter
            /\ last_connection_try' = last_connection_try
            /\ connect_pending' = connect_pending]_vars

C1_Witness ==
    /\ connect_pending
    /\ last_call.path = "pending"
    /\ last_call.ret = "False"
    /\ ~last_call.startup

\* C2: under every interleaving of the setup, poll and write callers at most
\* one call of the transport's connect is outstanding.
C2_AtMostOneTransportConnect == Cardinality(InTransportConnect) <= 1

C2_Witness ==
    /\ pc["poll"] = "awaiting"
    /\ last_call.path = "pending"
    /\ last_call.startup

\* C3: whenever no connect call is executing the guard is clear, whichever
\* way the call that set it ended (success, backoff skip, not connected,
\* Modbus, network or unexpected exception, cancellation).
C3_GuardClearWhenNoCallRuns ==
    (InTransportConnect = {}) => ~connect_pending

C3_Witness ==
    /\ InTransportConnect = {}
    /\ ~connect_pending
    /\ last_call.path = "unexpected_exc"

\* C4: a successful attempt sets the failure counter to 0, a failed real
\* attempt (exception, network error, or returned but not connected) adds
\* exactly 1, a call turned away by the guard or skipped by backoff leaves
\* it unchanged, and it never decreases other than by the reset on success.
C4_CounterDiscipline ==
    [][/\ \A c \in Callers :
            /\ ConnectReturn(c, "connected") => failed_reconnect_counter' = 0
            /\ \A o \in FailedOutcomes :
                 ConnectReturn(c, o) =>
                     failed_reconnect_counter' = failed_reconnect_counter + 1
            /\ (ConnectPending(c) \/ ConnectSkipped(c)) =>
                     failed_reconnect_counter' = failed_reconnect_counter
       /\ failed_reconnect_counter' < failed_reconnect_counter =>
            /\ failed_reconnect_counter' = 0
            /\ \E c \in Callers : ConnectReturn(c, "connected")]_vars

C4_Witness ==
    /\ last_call.path = "not_connected"
    /\ failed_reconnect_counter = 2
    /\ last_call.ret = "False"

\* the backoff of section 4.1, value by value
ExpectedBackoff(f, startup) ==
    CASE startup \/ f < 3 -> 0
      [] ~startup /\ f = 3 -> 300
      [] ~startup /\ f = 4 -> 600
      [] ~startup /\ f = 5 -> 1200
      [] ~startup /\ f = 6 -> 2400
      [] OTHER -> 3600

\* C5: a non-startup call with failure counter f >= 3 computes the backoff
\* 300, 600, 1200, 2400 for f = 3..6 and 3600 for every f >= 7; a call with
\* f < 3 and a startup call compute 0.
C5_BackoffValues ==
    [][\A c \in Callers :
        (ConnectSkipped(c) \/ ConnectAttempt(c)) =>
            last_call'.backoff =
                ExpectedBackoff(failed_reconnect_counter, StartupOf(c))]_vars

C5_Witness ==
    /\ last_call.path = "awaiting"
    /\ ~last_call.startup
    /\ failed_reconnect_counter = 6
    /\ last_call.backoff = 2400

\* C6: a non-startup call with counter >= 3 that passes the guard is skipped
\* (returns False, transport not reached) exactly when the time since the
\* last real attempt is less than the backoff, and otherwise makes a real
\* attempt; with counter 3 a call at 299 s is skipped and one at 301 s
\* attempts.
C6_SkippedExactlyInsideWindow ==
    [][\A c \in Callers :
        (/\ ~StartupOf(c)
         /\ ~connect_pending
         /\ failed_reconnect_counter >= BACKOFF_THRESHOLD_FAILURES
         /\ Connect(c)) =>
            LET elapsed == now - last_connection_try
                inside == elapsed <
                            ExpectedBackoff(failed_reconnect_counter, FALSE)
                skipped == /\ last_call'.path = "skipped"
                           /\ last_call'.ret = "False"
                           /\ pc'[c] = "idle"
                           /\ last_connection_try' = last_connection_try
                attempted == /\ last_call'.path = "awaiting"
                             /\ pc'[c] = "awaiting"
                             /\ last_connection_try' = now
            IN  /\ last_connection_try # None
                /\ inside => skipped
                /\ ~inside => attempted
                /\ (failed_reconnect_counter = 3 /\ elapsed = 299) => skipped
                /\ (failed_reconnect_counter = 3 /\ elapsed = 301) => attempted
       ]_vars

C6_Witness ==
    /\ last_call.path = "skipped"
    /\ failed_reconnect_counter = 3
    /\ now - last_connection_try = 299

\* C7: a startup call that passes the guard always makes a real transport
\* attempt, whatever the counter and however recent the last attempt.
C7_StartupBypassesBackoff ==
    [][\A c \in Callers :
        (StartupOf(c) /\ ~connect_pending /\ Connect(c)) =>
            /\ pc'[c] = "awaiting"
            /\ last_call'.path = "awaiting"
            /\ connect_pending'
            /\ last_connection_try' = now]_vars

C7_Witness ==
    /\ last_call.startup
    /\ last_call.path = "awaiting"
    /\ failed_reconnect_counter >= BACKOFF_THRESHOLD_FAILURES
    /\ now = 0

\* C8: between two successful connects the backoff computed by a non-startup
\* call is never less than the one computed by the non-startup call before
\* it, and no computed backoff exceeds 3600 seconds.
C8_BackoffMonotonicAndBounded ==
    /\ [](/\ last_call.backoff <= 3600
          /\ episode_backoff <= 3600
          /\ Backoff(failed_reconnect_counter, FALSE) <= 3600)
    /\ [][\A c \in Callers :
            (~StartupOf(c) /\ (ConnectSkipped(c) \/ ConnectAttempt(c))) =>
                last_call'.backoff >= episode_backoff]_vars

C8_Witness ==
    /\ last_call.path = "skipped"
    /\ failed_reconnect_counter = MaxFailures
    /\ episode_backoff = 3600
    /\ last_call.backoff = 3600

\* C9 (as claimed): every failed real attempt closes the transport handle
\* before it returns False, the attempt that brings the counter to the
\* threshold included.
C9_FailedAttemptClosesTransport ==
    last_call.path \in FailedOutcomes => last_call.closed

\* C10 (as claimed): a failed attempt that raises the counter from 2 to 3
\* emits the entering-backoff notification, on every failure path, startup
\* call or not.
C10_ThresholdCrossingLogged ==
    (/\ last_call.path \in FailedOutcomes
     /\ failed_reconnect_counter = BACKOFF_THRESHOLD_FAILURES)
        => last_call.logged

\* C10 (amended): a failed non-startup attempt that raises the counter from
\* 2 to 3 emits the entering-backoff notification, on every failure path; a
\* startup call never emits it.
C10_ThresholdCrossingLoggedUnlessStartup ==
    /\ (/\ last_call.path \in FailedOutcomes
        /\ failed_reconnect_counter = BACKOFF_THRESHOLD_FAILURES
        /\ ~last_call.startup) => last_call.logged
    /\ last_call.startup => ~last_call.logged

C10_Witness ==
    /\ last_call.path = "not_connected"
    /\ failed_reconnect_counter = BACKOFF_THRESHOLD_FAILURES
    /\ ~last_call.startup
    /\ last_call.logged

C12_PercentageCheck ==
    (result.fn = "check_valid_result" /\ item.format = "percentage") =>
        LET v == result.arg IN
        /\ v = 65535 => (~result.res.some /\ item.is_invalid)
        /\ v # 65535 => (result.res = Some(v) /\ ~item.is_invalid)

C12_Witness ==
    /\ result.fn = "check_valid_result"
    /\ item.format = "percentage"
    /\ result.arg = 65535
    /\ ~result.res.some
    /\ item.is_invalid

\* the sentinel values of a temperature
TemperatureSentinels == {0 - 32768, 0 - 32767, 32768}

\* C13: for every temperature n in the signed 16-bit range other than the
\* sentinels, decoding what encoding n produced gives n again and marks the
\* item valid.
C13_TemperatureRoundTrip ==
    (/\ result.fn = "round_trip"
     /\ item.format = "temperature"
     /\ result.arg >= 0 - 32768
     /\ result.arg <= 32767
     /\ result.arg \notin TemperatureSentinels) =>
        (result.res = Some(result.arg) /\ ~item.is_invalid)

C13_Witness ==
    /\ result.fn = "round_trip"
    /\ item.format = "temperature"
    /\ result.arg = 0 - 999
    /\ result.res = Some(0 - 999)
    /\ ~item.is_invalid

\* the read-only access kinds
ReadOnlyTypes == {"Sensor", "Number_RO", "Sensor_Calc"}

\* C14: the value a write transmits is value + 65536 when the item is a
\* temperature and value < 0, and value itself in every other case.
C14_TransmittedValue ==
    request.kind = "write" =>
        /\ result.fn = "set_value"
        /\ request.value =
              (IF item.format = "temperature" /\ result.arg < 0
               THEN result.arg + 65536
               ELSE result.arg)

C14_Witness ==
    /\ request.kind = "write"
    /\ item.format = "temperature"
    /\ result.arg = 0 - 999
    /\ request.value = 64537

\* C15 (as claimed): set_value on a read-only item (sensor, read-only
\* number, calculated sensor) sends no register write and returns at once;
\* a register write is sent only for the writable kinds number and select.
C15_WriteOnlyForWritableKinds ==
    /\ (result.fn = "set_value" /\ item.type \in ReadOnlyTypes) =>
            (request = NoRequest /\ op = NoOp /\ result.raised = "none")
    /\ request.kind = "write" => item.type \in {"Number", "Select"}

\* C16: get_value while the transport is not connected returns an absent
\* value, issues no register read and leaves the item's validity flag as it
\* was, with and without the suppress-warning flag.
C16_NoReadWithoutConnection ==
    [][(GetValueCall /\ ~connected) =>
            /\ result'.fn = "get_value"
            /\ result'.res = Absent
            /\ result'.raised = "none"
            /\ request' = NoRequest
            /\ op' = NoOp
            /\ item' = item]_vars

C16_Witness ==
    /\ result.fn = "get_value"
    /\ result.raised = "none"
    /\ request = NoRequest
    /\ ~connected
    /\ ~item.is_invalid
    /\ item.type = "Sensor"
    /\ no_connect_warn

\* C17: a read of a valid item over a connected transport is one
\* single-register request at the item's address: an input-register read
\* for sensor and calculated-sensor items, a holding-register read for
\* select, number and read-only-number items; an item of any other kind
\* yields an absent value with no request.
C17_ReadDispatch ==
    [][/\ (GetValueCall /\ connected /\ ~item.is_invalid) =>
            /\ item.type \in {"Sensor", "Sensor_Calc"} =>
                    request' = [kind |-> "input", address |-> item.address,
                                value |-> 0, count |-> 1]
            /\ item.type \in {"Select", "Number", "Number_RO"} =>
                    request' = [kind |-> "holding", address |-> item.address,
                                value |-> 0, count |-> 1]
            /\ item.type \notin TYPES =>
                    /\ request' = NoRequest
                    /\ result'.res = Absent
                    /\ result'.raised = "none"
                    /\ op' = NoOp
       /\ ((\E mbr \in Responses : GetValueReturn(mbr))
            \/ (\E e \in Raises : GetValueRaise(e))) => request' = request
      ]_vars

C17_Witness ==
    /\ request.kind = "holding"
    /\ request.count = 1
    /\ item.type = "Number_RO"
    /\ item.address = 1
    /\ request.address = 1

\* C18: an exception response with code 2 to a read marks the item invalid
\* and the read yields an absent value; any other exception code yields an
\* absent value and leaves the validity flag unchanged.
C18_ExceptionResponse ==
    [][\A mbr \in Responses :
        (mbr.kind = "exception" /\ GetValueReturn(mbr)) =>
            /\ result'.res = Absent
            /\ result'.raised = "none"
            /\ mbr.code = 2 => item'.is_invalid
            /\ mbr.code # 2 => item'.is_invalid = item.is_invalid]_vars

C18_Witness ==
    /\ result.fn = "get_value"
    /\ result.res = Absent
    /\ item.format = "number"
    /\ item.is_invalid

\* C19 (as claimed): no error of the transport during a register read
\* (protocol exception, timeout, network or connection error) leaves
\* get_value: the read returns an absent value.
C19_NoErrorLeavesGetValue ==
    result.fn = "get_value" => result.raised \in {"none", "running"}

\* C20: a poll cycle that starts with a connected transport makes no connect
\* call; one that starts without a connection makes exactly one
\* connect(startup=False), and when that call returns False (failed, skipped
\* by backoff, blocked by the in-flight guard) the cycle returns the empty
\* snapshot and has issued no register read.
C20_CycleStart ==
    /\ [](/\ cycle.connects = (IF cycle.stage = "idle" \/ cycle.connected_at_start
                               THEN 0 ELSE 1)
          /\ cycle.connect_ret = "False" =>
                /\ cycle.stage = "returned"
                /\ cycle.outcome = "empty"
                /\ cycle.reads = <<>>
                /\ results = {})
    /\ [][/\ (MayPoll /\ cycle' # cycle) =>
                /\ cycle'.connected_at_start = connected
                /\ connected => UNCHANGED connvars
                /\ ~connected =>
                      /\ last_call'.startup = FALSE
                      /\ last_call'.path \in {"pending", "skipped", "awaiting"}
                      /\ last_call'.path \in {"pending", "skipped"} =>
                            cycle'.connect_ret = "False"
          /\ cycle.stage = "connecting" =>
                /\ cycle'.connects = cycle.connects
                /\ (cycle' # cycle /\ last_call'.ret = "False") =>
                      cycle'.connect_ret = "False"
          /\ cycle.stage = "reading" => cycle'.connects = cycle.connects
         ]_vars

C20_Witness ==
    /\ cycle.stage = "returned"
    /\ ~cycle.connected_at_start
    /\ cycle.connects = 1
    /\ cycle.connect_ret = "False"
    /\ cycle.outcome = "empty"
    /\ last_call.path = "skipped"

\* the registry indices a cycle has issued a register read for
ReadIndices == {cycle.reads[n] : n \in 1..Len(cycle.reads)}

\* the indices of a tuple to_update
Attempted(tu) == {tu[n] : n \in 1..Len(tu)}

\* C21: an item of heating circuit 2, 3, 4 or 5 that is not enabled in the
\* configuration is never read in a poll cycle and its key is in no snapshot,
\* whatever its kind; an item of any other sub-device is treated as
\* configured: a completed cycle that attempted it holds its key when its
\* kind is monitored.
C21_DisabledCircuitOmitted ==
    \A i \in 1..Len(registry) :
        LET it == registry[i] IN
        /\ (it.device \in {"HZ2", "HZ3", "HZ4", "HZ5"}
                /\ it.device \notin enabled) =>
              /\ (i - 1) \notin ReadIndices
              /\ it.key \notin Keys(results)
              /\ it.state = Absent
              /\ ~it.is_invalid
        /\ (/\ it.device \notin {"HZ2", "HZ3", "HZ4", "HZ5"}
            /\ it.type \in TYPES
            /\ cycle.outcome = "results"
            /\ (i - 1) \in Attempted(cycle.to_update)) =>
              it.key \in Keys(results)

C21_Witness ==
    /\ cycle.outcome = "results"
    /\ cycle.to_update = <<0, 1, 2>>
    /\ registry[2].device = "HZ5"
    /\ registry[2].type = "Sensor_Calc"
    /\ enabled = {"HZ2"}
    /\ Keys(results) = {"k1"}
    /\ cycle.reads = <<0>>

\* C22: the snapshot of a cycle that ran to completion holds exactly the
\* keys of the attempted items that are configured and of a monitored kind,
\* one entry each, also when the read gave an absent value, and the value of
\* an entry is the result of the item's read.
C22_SnapshotOfCompletedCycle ==
    cycle.outcome = "results" =>
        /\ Keys(results) =
              { registry[i].key : i \in
                  { j \in 1..Len(registry) :
                      /\ (j - 1) \in Attempted(cycle.to_update)
                      /\ ~(registry[j].device \in {"HZ2", "HZ3", "HZ4", "HZ5"}
                            /\ registry[j].device \notin enabled)
                      /\ registry[j].type \in
                            {"Sensor", "Sensor_Calc", "Select", "Number",
                             "Number_RO"} } }
        /\ Cardinality(results) = Cardinality(Keys(results))
        /\ \A e \in results : \E i \in 1..Len(registry) :
              registry[i].key = e.key /\ registry[i].state = e.res

C22_Witness ==
    /\ cycle.outcome = "results"
    /\ cycle.connected_at_start
    /\ connected
    /\ cycle.to_update = <<0, 1, 2>>
    /\ cycle.reads = <<0, 1>>
    /\ results = {[key |-> "k1", res |-> Absent],
                  [key |-> "k2", res |-> Some(0)]}

\* C23 (as claimed): within one cycle the items are read one at a time in
\* ascending registry index, when the whole registry is polled and when
\* fetch_data is given a set of indices.
C23_ReadsInRegistryOrder ==
    \A m, n \in 1..Len(cycle.reads) :
        m < n => cycle.reads[m] < cycle.reads[n]

\* C24 (as claimed): a poll cycle in which a ModbusException is raised
\* returns the empty snapshot from _async_update_data.
C24_ModbusExceptionGivesEmpty ==
    (cycle.stage = "returned"
        /\ \E r \in cycle.raised : r.e = "ModbusException")
            => cycle.outcome = "empty"

\* C24 (amended): a ModbusException raised in a poll cycle never leaves
\* _async_update_data.  Raised while connecting it is absorbed by connect()
\* and the cycle returns the empty snapshot; raised by a register read it is
\* absorbed by get_value: the item's entry is absent and the cycle goes on
\* with the remaining items.
C24_ModbusExceptionAbsorbed ==
    /\ []([at |-> "connect", e |-> "ModbusException"] \in cycle.raised =>
              /\ cycle.stage = "returned"
              /\ cycle.outcome = "empty"
              /\ results = {})
    /\ [](cycle.outcome = "raised" =>
              \E r \in cycle.raised : r.at = "read" /\ r.e = "OSError")
    /\ [][CycleReadRaise("ModbusException") =>
            LET index == Head(cycle.todo) IN
            /\ cycle'.outcome \in {"none", "results"}
            /\ cycle'.reads \in {cycle.reads} \cup
                  {Append(cycle.reads, i) : i \in 0..Len(registry)}
            /\ [key |-> registry[index + 1].key, res |-> Absent] \in results'
            /\ \A e \in results : e \in results'
            /\ registry'[index + 1].state = Absent]_vars

C24_Witness ==
    /\ cycle.outcome = "results"
    /\ cycle.raised = {[at |-> "read", e |-> "ModbusException"]}
    /\ cycle.reads = <<0, 1>>
    /\ results = {[key |-> "k1", res |-> Absent],
                  [key |-> "k2", res |-> Some(0)]}

\* C25: when the 10-second bound of a poll cycle expires, the rest of the
\* cycle is abandoned and _async_update_data returns the empty mapping
\* without raising: what the cycle had collected is discarded.
C25_TimeoutGivesEmpty ==
    /\ []((\E r \in cycle.raised : r.e = "CancelledError") =>
              /\ cycle.stage = "returned"
              /\ cycle.outcome = "empty"
              /\ results = {})
    /\ [][(CycleTimeoutConnecting \/ CycleTimeoutReading) =>
              /\ cycle'.stage = "returned"
              /\ cycle'.outcome = "empty"
              /\ cycle'.todo = <<>>
              /\ cycle'.reads = cycle.reads
              /\ results' = {}]_vars

C25_Witness ==
    /\ cycle.stage = "returned"
    /\ cycle.raised = {[at |-> "read", e |-> "CancelledError"]}
    /\ cycle.to_update = <<0, 1, 2>>
    /\ cycle.reads = <<0, 1>>
    /\ registry[1].state = Some(0)
    /\ cycle.outcome = "empty"
    /\ results = {}

\* C26 (as claimed): a poll cycle ended by its timeout, during the reconnect
\* or during a register read, leaves the in-flight guard clear, and the next
\* cycle does its connection check and its reads as if the timed-out cycle
\* had not happened: the reconnect the timed-out cycle was allowed to make
\* is not refused to the cycle after it.
C26_NextCycleUnaffectedByTimeout ==
    [][/\ CycleTimeoutConnecting =>
            /\ ~connect_pending'
            /\ pc'["poll"] = "idle"
            /\ cycle'.stage = "returned"
            /\ failed_reconnect_counter' = failed_reconnect_counter
            /\ ~SkipsAttempt(failed_reconnect_counter', last_connection_try',
                             now', FALSE)
       /\ CycleTimeoutReading =>
            /\ pc'["poll"] = "idle"
            /\ cycle'.stage = "returned"
            /\ UNCHANGED connvars
      ]_vars

\* C27: once the device is reachable, with poll cycles being scheduled and
\* time advancing, a cycle eventually returns a non-empty snapshot over a
\* connection made by a real connect attempt, whatever the failure counter,
\* the last-attempt time and the guard were; when no other caller was
\* connecting, that attempt is the cycle's own.
C27_EventuallyReconnected ==
    /\ <>(/\ connected
          /\ failed_reconnect_counter = 0
          /\ cycle.outcome = "results"
          /\ results # {})
    /\ (~connect_pending) =>
          <>(/\ cycle.connects = 1
             /\ cycle.connect_ret = "True"
             /\ cycle.outcome = "results"
             /\ results # {})

C27_Witness ==
    /\ now = BACKOFF_MAX_SECONDS
    /\ last_connection_try = BACKOFF_MAX_SECONDS
    /\ connected
    /\ failed_reconnect_counter = 0
    /\ cycle.connects = 1
    /\ cycle.connect_ret = "True"
    /\ cycle.outcome = "results"
    /\ results # {}

\* C28: a run of _async_setup makes at most one connect call, with
\* startup=True, which attempts the connection even inside a backoff window;
\* the run succeeds only with the transport connected after that call; with
\* no transport handle (no call made) or with the transport not connected
\* after the call it raises ConfigEntryNotReady; a run that has ended calls
\* connect no more.
C28_SetupOnce ==
    [][/\ setup'.calls <= 1
       /\ (setup.stage = "none" /\ setup' # setup) =>
             /\ setup.handle =>
                   /\ setup'.calls = 1
                   /\ setup'.startup
                   /\ last_call'.startup
                   /\ ~connect_pending =>
                         /\ pc'["setup"] = "awaiting"
                         /\ last_connection_try' = now
             /\ ~setup.handle =>
                   /\ setup'.calls = 0
                   /\ setup'.stage = "failed"
                   /\ UNCHANGED connvars
       /\ (setup'.stage \in {"ready", "failed"} /\ setup' # setup) =>
             /\ setup'.stage = "ready" <=> (setup.handle /\ connected')
             /\ setup'.stage = "ready" => setup'.calls = 1
             /\ setup'.stage = "failed" =>
                   setup'.error = "ConfigEntryNotReady"
             /\ pc'["setup"] = "idle"
       /\ setup.stage \in {"ready", "failed"} =>
             /\ setup' = setup
             /\ pc'["setup"] = "idle"
             /\ last_call'.startup => last_call' = last_call
      ]_vars

C28_Witness ==
    /\ setup.stage = "failed"
    /\ setup.handle
    /\ setup.calls = 1
    /\ setup.path = "not_connected"
    /\ ~connected
    /\ failed_reconnect_counter > BACKOFF_THRESHOLD_FAILURES
    /\ last_connection_try = now

\* the items a cycle attempts: those of its tuple that exist, are configured
\* and are of a monitored kind
AttemptedItems ==
    {i \in Attempted(cycle.to_update) :
        /\ i < Len(registry)
        /\ check_configured(registry[i + 1].device, enabled)
        /\ registry[i + 1].type \in TYPES}

\* C29: the snapshot a cycle returns holds only entries of items that cycle
\* has attempted: a soft failure returns the empty mapping, and a key of the
\* previous cycle's snapshot whose item the current cycle has not attempted
\* is not in the new one.
C29_SnapshotNotAccumulated ==
    /\ \A e \in results : \E i \in AttemptedItems : registry[i + 1].key = e.key
    /\ cycle.stage = "returned" =>
          /\ cycle.outcome = "empty" => results = {}
          /\ \A k \in cycle.previous :
                (\A i \in AttemptedItems : registry[i + 1].key # k)
                    => k \notin Keys(results)

C29_Witness ==
    /\ cycle.stage = "returned"
    /\ cycle.outcome = "results"
    /\ "k1" \in cycle.previous
    /\ "k1" \notin Keys(results)
    /\ "k2" \in Keys(results)

\* C30: get_value_from_item returns the state of the first registry item
\* with the identifier and None when no item has it; the call reads no
\* register and changes nothing; a cycle that fails softly changes no item
\* state, so that a lookup after it gives what the last read or write of
\* the item has stored, although the snapshot is empty: an item state only
\* changes when a cycle that does not fail softly gets the value of the
\* item, or when an entity write stores its value.
C30_PointLookup ==
    [][/\ looked' # looked =>
             /\ UNCHANGED <<connvars, objvars, registry, enabled, cycle,
                            results, setup>>
             /\ \/ /\ \A n \in 1..Len(registry) :
                         registry[n].key # looked'.key
                   /\ looked'.value = Absent
                \/ \E n \in 1..Len(registry) :
                      /\ registry[n].key = looked'.key
                      /\ \A m \in 1..(n - 1) : registry[m].key # looked'.key
                      /\ looked'.value = registry[n].state
       /\ cycle'.outcome = "empty" => results' = {}
       /\ \A n \in 1..Len(registry) :
             registry'[n].state # registry[n].state =>
                \/ /\ cycle'.outcome # "empty"
                   /\ (n - 1) \in Attempted(cycle'.to_update)
                   /\ registry[n].type \in TYPES
                \/ /\ cycle' = cycle
                   /\ \E val \in WrittenValues :
                         registry'[n].state = Some(val)
      ]_vars

C30_Witness ==
    /\ looked.key = "k1"
    /\ looked.after = "empty"
    /\ looked.value = Some(1)
    /\ cycle.outcome = "empty"
    /\ results = {}
    /\ registry[1].state = Some(1)
    /\ registry[2].state # registry[1].state

\* C31 (as stated): the entering-backoff notification is emitted at most
\* once between two successful connects, and every run of failures that
\* reaches the threshold emits it, also after a reconnect.
C31_OncePerEpisode ==
    [][/\ notified'.episode <= 1
       /\ (/\ failed_reconnect_counter = BACKOFF_THRESHOLD_FAILURES - 1
           /\ failed_reconnect_counter' = BACKOFF_THRESHOLD_FAILURES)
             => notified'.episode = 1
      ]_vars

\* C31 (amended): the entering-backoff notification is emitted at most once
\* between two successful connects, however many attempts fail; a run of
\* failures after a reconnect emits it again when a non-startup call brings
\* the counter to the threshold, and not when a startup call does.
C31_OncePerEpisodeUnlessStartup ==
    [][/\ notified'.episode <= 1
       /\ (/\ failed_reconnect_counter = BACKOFF_THRESHOLD_FAILURES - 1
           /\ failed_reconnect_counter' = BACKOFF_THRESHOLD_FAILURES)
             => /\ notified.episode = 0
                /\ notified'.episode = (IF last_call'.startup THEN 0 ELSE 1)
       /\ notified'.episode > notified.episode =>
             /\ failed_reconnect_counter = BACKOFF_THRESHOLD_FAILURES - 1
             /\ failed_reconnect_counter' = BACKOFF_THRESHOLD_FAILURES
       /\ failed_reconnect_counter' = 0 => notified'.episode = 0
      ]_vars

C31_Witness ==
    /\ notified.earlier
    /\ notified.episode = 1
    /\ failed_reconnect_counter > BACKOFF_THRESHOLD_FAILURES + 1
    /\ ~connected

\* C32: an attempt sets the last-attempt time to the time it starts, before
\* it waits for the transport, and the time does not move while it waits; a
\* cancellation during the wait clears the guard and is neither a success
\* nor a failure: the counter and the last-attempt time stay as they are,
\* nothing is returned, closed or logged.
C32_CancelledAttempt ==
    [][\A c \in Callers :
          /\ (pc[c] = "idle" /\ pc'[c] = "awaiting") =>
                last_connection_try' = now
          /\ (pc[c] = "awaiting" /\ pc'[c] = "awaiting") =>
                last_connection_try' = last_connection_try
          /\ (/\ pc[c] = "awaiting"
              /\ pc'[c] = "idle"
              /\ last_call'.path = "cancelled") =>
                /\ connect_pending
                /\ ~connect_pending'
                /\ failed_reconnect_counter' = failed_reconnect_counter
                /\ last_connection_try' = last_connection_try
                /\ last_connection_try # None
                /\ episode_backoff' = episode_backoff
                /\ last_call'.ret = "None"
                /\ ~last_call'.closed
                /\ ~last_call'.logged
      ]_vars

C32_Witness ==
    /\ last_call.path = "cancelled"
    /\ ~connect_pending
    /\ pc["poll"] = "idle"
    /\ failed_reconnect_counter = BACKOFF_THRESHOLD_FAILURES
    /\ last_connection_try = now
    /\ now >= BACKOFF_BASE_SECONDS

\* C33: a connect call that is skipped by backoff returns False with the
\* guard clear again and leaves the failure counter, the last-attempt time
\* and the transport as they were; the last-attempt time only moves when a
\* call starts a real attempt, so skipped calls never extend the window.
C33_SkippedCallFrame ==
    [][/\ (last_call' # last_call /\ last_call'.path = "skipped") =>
             /\ ~connect_pending
             /\ ~connect_pending'
             /\ failed_reconnect_counter' = failed_reconnect_counter
             /\ last_connection_try' = last_connection_try
             /\ connected' = connected
             /\ pc' = pc
             /\ last_call'.ret = "False"
             /\ ~last_call'.closed
             /\ now - last_connection_try < last_call'.backoff
       /\ last_connection_try' # last_connection_try =>
             /\ last_connection_try' = now
             /\ \E c \in Callers : pc[c] = "idle" /\ pc'[c] = "awaiting"
      ]_vars

C33_Witness ==
    /\ last_call.path = "skipped"
    /\ ~connect_pending
    /\ failed_reconnect_counter = BACKOFF_THRESHOLD_FAILURES
    /\ last_connection_try = 0
    /\ now = BACKOFF_BASE_SECONDS - 1

C37_NoRollback ==
    [][(/\ cycle.stage \in {"connecting", "reading"}
        /\ cycle'.outcome = "empty") =>
            /\ results' = {}
            /\ cycle'.stage = "returned"
            /\ cycle'.reads = cycle.reads
            /\ registry' = registry
      ]_vars

\* a cycle over three items cut off while it awaited the second read: the
\* snapshot is empty, the first item holds the value a read has stored and
\* the second, whose read was cut off, still has no value
C37_Witness ==
    /\ cycle.stage = "returned"
    /\ cycle.outcome = "empty"
    /\ results = {}
    /\ cycle.to_update = <<0, 1, 2>>
    /\ cycle.reads = <<0, 1>>
    /\ \E r \in cycle.raised : r.at = "read"
    /\ registry[1].state = Some(0)
    /\ ~registry[1].is_invalid
    /\ registry[2].state = Absent

C39_WriteDroppedDuringReconnect ==
    [][(/\ pc["poll"] = "awaiting"
        /\ ~connected
        /\ write.stage \in {"idle", "done"}
        /\ write' # write
        /\ write'.val.some) =>
            /\ write'.stage = "done"
            /\ write'.connect = "pending"
            /\ ~write'.sent
            /\ write'.error = "none"
            /\ request' = NoRequest
            /\ op' = NoOp
            /\ pc' = pc
            /\ last_call'.path = "pending"
            /\ last_call'.ret = "False"
            /\ UNCHANGED <<connect_pending, failed_reconnect_counter,
                           last_connection_try, connected>>
      ]_vars

\* the reconnect of the coordinator is still awaited, the transport is not
\* connected, and a write of 1 has ended at the guard without a request
C39_Witness ==
    /\ pc["poll"] = "awaiting"
    /\ connect_pending
    /\ ~connected
    /\ write.stage = "done"
    /\ write.connect = "pending"
    /\ write.val = Some(1)
    /\ ~write.sent
    /\ write.error = "none"
    /\ request = NoRequest
    /\ last_call.path = "pending"

====
